---- MODULE Spec2Model ----
(***************************************************************************)
(* Model of run.py, the build-and-run launcher of frenzy.                  *)
(*                                                                         *)
(* A string is a sequence of symbols.  The symbols "/" and "." are the     *)
(* path separator and the dot; every other symbol is an atom of ordinary   *)
(* characters ("target", "--quiet", "x").  A command line is a sequence of *)
(* strings.  A path object is a record [root, parts] as pathlib keeps it.  *)
(***************************************************************************)
EXTENDS Integers, Sequences, FiniteSets, TLC

\* Bounds of the model.
MaxLen == 3      \* longest --measurements-file value, in symbols
MaxArgs == 3     \* longest command line, in words
MaxCode == 2     \* largest return code of a child process

Sep == "/"
Dot == "."

\* The values a user may type after --measurements-file.
PathSymbols == {Sep, Dot, "x"}
RawPaths == UNION {[1..n -> PathSymbols] : n \in 0..MaxLen}

\* Return codes of a child as subprocess reports them: negative = killed by a signal.
ReturnCodes == (-1)..MaxCode

(***************************************************************************)
(* pathlib                                                                 *)
(***************************************************************************)
HasSep(s) == \E i \in 1..Len(s) : s[i] = Sep

FirstSep(s) == CHOOSE i \in 1..Len(s) : s[i] = Sep /\ \A j \in 1..(i-1) : s[j] # Sep

\* str.split(sep)
RECURSIVE Split(_)
Split(s) ==
    IF ~HasSep(s) THEN <<s>>
    ELSE LET i == FirstSep(s)
         IN <<SubSeq(s, 1, i-1)>> \o Split(SubSeq(s, i+1, Len(s)))

\* sep.join(parts)
RECURSIVE JoinSep(_)
JoinSep(parts) ==
    IF parts = <<>> THEN <<>>
    ELSE IF Len(parts) = 1 THEN parts[1]
    ELSE parts[1] \o <<Sep>> \o JoinSep(Tail(parts))

\* The POSIX flavour's splitroot: exactly two leading slashes are kept, any
\* other number of leading slashes is one root.
SplitRoot(s) ==
    IF Len(s) = 0 \/ s[1] # Sep THEN [root |-> <<>>, rel |-> s]
    ELSE IF Len(s) >= 2 /\ s[2] = Sep /\ (Len(s) = 2 \/ s[3] # Sep)
         THEN [root |-> <<Sep, Sep>>, rel |-> SubSeq(s, 3, Len(s))]
         ELSE [root |-> <<Sep>>, rel |-> Tail(s)]

KeptPart(c) == c # <<>> /\ c # <<Dot>>

\* Path(s): empty and "." components are dropped.
PurePath(s) ==
    LET sr == SplitRoot(s)
    IN [root |-> sr.root, parts |-> SelectSeq(Split(sr.rel), KeptPart)]

\* str(path) / os.fspath(path), the word a child process receives.
fspath(p) ==
    IF p.root = <<>> /\ p.parts = <<>> THEN <<Dot>>
    ELSE p.root \o JoinSep(p.parts)

\* path / s
truediv(p, s) ==
    LET q == PurePath(s)
    IN IF q.root # <<>> THEN q
       ELSE [root |-> p.root, parts |-> p.parts \o q.parts]

\* Locations run.py may be installed in (Path(__file__).parent.resolve()).
ProjDirs == {PurePath(<<Sep>>), PurePath(<<Sep, "repo">>)}

(***************************************************************************)
(* argparse                                                                *)
(***************************************************************************)
OptSamply == <<"--samply">>
OptMeasurementsFile == <<"--measurements-file">>
OptHelp == <<"-h">>
OptUnknown == <<"--bogus">>
OptionWords == {OptSamply, OptMeasurementsFile, OptHelp, OptUnknown}

\* argparse takes a word for an option when it starts with the prefix character.
IsOptional(w) == w \in OptionWords

ArgVectors(raw) == UNION {[1..n -> OptionWords \cup {raw}] : n \in 0..MaxArgs}

DefaultMeasurementsFile(dir) == truediv(truediv(dir, <<"1brc">>), <<"measurements_1b.txt">>)

Namespace(status, samply, mfile) ==
    [status |-> status, samply |-> samply, measurements_file |-> mfile]

\* parse_args without the final check: unknown words are collected, not rejected.
RejectExtras_known(extras) == FALSE

\* parse_args ends with an error when unrecognized arguments were collected.
RejectExtras(extras) == extras

\* The words are consumed from left to right: -h exits at once, an option
\* that misses its value is an error at once, unrecognized words are an
\* error at the end.
RECURSIVE ParseFrom(_, _, _, _)
ParseFrom(av, i, ns, extras) ==
    IF i > Len(av)
    THEN IF RejectExtras(extras) THEN [ns EXCEPT !.status = "error"] ELSE ns
    ELSE IF av[i] = OptHelp THEN [ns EXCEPT !.status = "help"]
    ELSE IF av[i] = OptSamply
         THEN ParseFrom(av, i+1, [ns EXCEPT !.samply = TRUE], extras)
    ELSE IF av[i] = OptMeasurementsFile
         THEN IF i+1 <= Len(av) /\ ~IsOptional(av[i+1])
              THEN ParseFrom(av, i+2,
                             [ns EXCEPT !.measurements_file = PurePath(av[i+1])],
                             extras)
              ELSE [ns EXCEPT !.status = "error"]
    ELSE ParseFrom(av, i+1, ns, TRUE)

parse_args(av, dir) ==
    ParseFrom(av, 1, Namespace("ok", FALSE, DefaultMeasurementsFile(dir)), FALSE)

\* Exit statuses the interpreter gives the launcher.
ArgparseErrorExit == 2
UncaughtExceptionExit == 1

(***************************************************************************)
(* The plan derived from the options                                       *)
(***************************************************************************)
SelectExe(samply) ==
    IF samply THEN << <<"samply">>, <<"record">> >> ELSE << <<"time">> >>

SelectProfile_hardcoded(samply) == <<"release">>

SelectProfile(samply) ==
    IF samply THEN <<"profiling">> ELSE <<"release">>

BuildCmd_verbose(prof) == << <<"cargo">>, <<"build">>, <<"--profile=">> \o prof >>

BuildCmd(prof) ==
    << <<"cargo">>, <<"build">>, <<"--profile=">> \o prof, <<"--quiet">> >>

BinaryPath_release(dir, prof) ==
    truediv(truediv(truediv(dir, <<"target">>), <<"release">>), <<"frenzy">>)

BinaryPath(dir, prof) ==
    truediv(truediv(truediv(dir, <<"target">>), prof), <<"frenzy">>)

RunCmd_legacy(wrapper, dir, prof, mfile) ==
    IF Len(wrapper) = 1
    THEN wrapper \o << fspath(BinaryPath(dir, prof)), fspath(mfile) >>
    ELSE wrapper \o << fspath(BinaryPath(dir, prof)) >>

RunCmd(wrapper, dir, prof, mfile) ==
    wrapper \o << fspath(BinaryPath(dir, prof)), fspath(mfile) >>

(***************************************************************************)
(* subprocess.check_call                                                   *)
(***************************************************************************)
NoChild == [state |-> "none", cmd |-> <<>>, cwd |-> <<>>, code |-> 0]

RunningChild(cmd, cwd) == [state |-> "alive", cmd |-> cmd, cwd |-> cwd, code |-> 0]

\* check_call returns to the caller only once the child has been waited for.
Waited_nowait(child) == child.state # "none"

Waited(child) == child.state = "exited"

\* subprocess.call: the return code is handed back and nobody looks at it.
Raises_call(code) == FALSE

Raises_positive(code) == code > 0

\* check_call raises CalledProcessError for every non-zero return code.
Raises(code) == code # 0

\* An exception nobody catches ends the script.
ExitOnRaise_returncode(code) == code

ExitOnRaise(code) == UncaughtExceptionExit

AfterRun_retry(code) == IF Raises(code) THEN "Building" ELSE "Succeeded"

AfterRun(code) == IF Raises(code) THEN "Failed" ELSE "Succeeded"

(***************************************************************************)
(* State                                                                   *)
(***************************************************************************)
VARIABLES
    argv,        \* sys.argv[1:]
    proj_dir,    \* the directory of run.py
    pc,          \* where the launcher is
    args,        \* the parsed options
    exe,         \* the wrapper command
    profile,     \* the build profile
    buildChild,  \* the cargo process
    runChild,    \* the wrapper process
    spawned,     \* the children spawned so far, in order
    raised,      \* the exception that ended the script, if any
    exitStatus,  \* <<>> while the launcher lives, <<status>> once it has exited
    ownStderr    \* the launcher itself wrote an error message or a traceback

vars == <<argv, proj_dir, pc, args, exe, profile, buildChild, runChild,
          spawned, raised, exitStatus, ownStderr>>

launcherVars == <<pc, args, exe, profile, spawned, raised, exitStatus, ownStderr>>

Init ==
    /\ proj_dir \in ProjDirs
    /\ \E raw \in RawPaths : argv \in ArgVectors(raw)
    /\ pc = "Configuring"
    /\ args = Namespace("unset", FALSE, PurePath(<<>>))
    /\ exe = <<>>
    /\ profile = <<>>
    /\ buildChild = NoChild
    /\ runChild = NoChild
    /\ spawned = <<>>
    /\ raised = "none"
    /\ exitStatus = <<>>
    /\ ownStderr = FALSE

\* The script dies of an uncaught exception.
Die(exc, code, to) ==
    /\ pc' = to
    /\ raised' = exc
    /\ exitStatus' = <<ExitOnRaise(code)>>
    /\ ownStderr' = TRUE

\* Lines 8-21: parse the options and derive the plan.
Configure ==
    /\ pc = "Configuring"
    /\ LET ns == parse_args(argv, proj_dir)
       IN /\ args' = ns
          /\ IF ns.status = "error"
             THEN /\ pc' = "Failed"
                  /\ raised' = "SystemExit"
                  /\ exitStatus' = <<ArgparseErrorExit>>
                  /\ ownStderr' = TRUE
                  /\ UNCHANGED <<exe, profile>>
             ELSE IF ns.status = "help"
             THEN /\ pc' = "HelpShown"
                  /\ raised' = "SystemExit"
                  /\ exitStatus' = <<0>>
                  /\ UNCHANGED <<exe, profile, ownStderr>>
             ELSE /\ pc' = "Building"
                  /\ exe' = SelectExe(ns.samply)
                  /\ profile' = SelectProfile(ns.samply)
                  /\ UNCHANGED <<raised, exitStatus, ownStderr>>
    /\ UNCHANGED <<argv, proj_dir, buildChild, runChild, spawned>>

\* Line 23: check_call starts cargo, or fails to.
BuildSpawn ==
    /\ pc = "Building"
    /\ buildChild.state = "none"
    /\ \/ /\ buildChild' = RunningChild(BuildCmd(profile), fspath(proj_dir))
          /\ spawned' = Append(spawned, "build")
          /\ UNCHANGED <<pc, raised, exitStatus, ownStderr>>
       \/ /\ Die("OSError", 0, "Failed")
          /\ UNCHANGED <<buildChild, spawned>>
    /\ UNCHANGED <<argv, proj_dir, args, exe, profile, runChild>>

\* cargo exits.
BuildExit ==
    /\ buildChild.state = "alive"
    /\ \E code \in ReturnCodes :
          buildChild' = [buildChild EXCEPT !.state = "exited", !.code = code]
    /\ UNCHANGED <<argv, proj_dir, runChild>>
    /\ UNCHANGED launcherVars

\* Lines 23-25: check_call returns or raises.
BuildWait ==
    /\ pc = "Building"
    /\ buildChild.state # "none"
    /\ Waited(buildChild)
    /\ IF Raises(buildChild.code)
       THEN Die("CalledProcessError", buildChild.code, "Failed")
       ELSE /\ pc' = "Running"
            /\ UNCHANGED <<raised, exitStatus, ownStderr>>
    /\ UNCHANGED <<argv, proj_dir, args, exe, profile, buildChild, runChild, spawned>>

\* Line 26: check_call starts the wrapper, or fails to.
RunSpawn ==
    /\ pc = "Running"
    /\ runChild.state = "none"
    /\ \/ /\ runChild' = RunningChild(
                 RunCmd(exe, proj_dir, profile, args.measurements_file), <<>>)
          /\ spawned' = Append(spawned, "run")
          /\ UNCHANGED <<pc, raised, exitStatus, ownStderr>>
       \/ /\ Die("OSError", 0, "Failed")
          /\ UNCHANGED <<runChild, spawned>>
    /\ UNCHANGED <<argv, proj_dir, args, exe, profile, buildChild>>

\* The wrapper exits.
RunExit ==
    /\ runChild.state = "alive"
    /\ \E code \in ReturnCodes :
          runChild' = [runChild EXCEPT !.state = "exited", !.code = code]
    /\ UNCHANGED <<argv, proj_dir, buildChild>>
    /\ UNCHANGED launcherVars

\* Lines 26-28: check_call returns or raises; the script ends.
RunWait ==
    /\ pc = "Running"
    /\ runChild.state # "none"
    /\ Waited(runChild)
    /\ IF AfterRun(runChild.code) = "Succeeded"
       THEN /\ pc' = "Succeeded"
            /\ exitStatus' = <<0>>
            /\ UNCHANGED <<raised, ownStderr>>
       ELSE Die("CalledProcessError", runChild.code, AfterRun(runChild.code))
    /\ UNCHANGED <<argv, proj_dir, args, exe, profile, buildChild, runChild, spawned>>

Next ==
    \/ Configure
    \/ BuildSpawn
    \/ BuildExit
    \/ BuildWait
    \/ RunSpawn
    \/ RunExit
    \/ RunWait

Spec == Init /\ [][Next]_vars

(***************************************************************************)
(* Vocabulary of the properties                                            *)
(***************************************************************************)
Terminal == {"Succeeded", "Failed", "HelpShown"}

Configured == pc # "Configuring" /\ args.status = "ok"

FlagSet == \E i \in 1..Len(argv) : argv[i] = OptSamply

HelpAsked == \E i \in 1..Len(argv) : argv[i] = OptHelp

UnknownGiven == \E i \in 1..Len(argv) : argv[i] = OptUnknown

ValueMissing == Len(argv) > 0 /\ argv[Len(argv)] = OptMeasurementsFile

FileSupplied == \E i \in 1..Len(argv) : argv[i] = OptMeasurementsFile

LastFileOption ==
    CHOOSE i \in 1..Len(argv) :
        /\ argv[i] = OptMeasurementsFile
        /\ \A j \in (i+1)..Len(argv) : argv[j] # OptMeasurementsFile

SuppliedValue == argv[LastFileOption + 1]

LastWord(cmd) == cmd[Len(cmd)]

BuildFailed == buildChild.state = "exited" /\ buildChild.code # 0

BuildSucceeded == buildChild.state = "exited" /\ buildChild.code = 0

RunFailed == runChild.state = "exited" /\ runChild.code # 0

ChildAlive == buildChild.state = "alive" \/ runChild.state = "alive"

ExpectedProfile == IF FlagSet THEN <<"profiling">> ELSE <<"release">>

\* P/target/B/frenzy, spelled out.
ExpectedBinary(B) ==
    proj_dir.root \o JoinSep(proj_dir.parts \o << <<"target">>, B, <<"frenzy">> >>)

ExpectedDefaultFile ==
    proj_dir.root \o JoinSep(proj_dir.parts \o << <<"1brc">>, <<"measurements_1b.txt">> >>)

C2_NoSpawnAfterFailedBuild ==
    BuildFailed => (runChild.state = "none" /\ spawned = <<"build">>
                    /\ pc \in {"Building", "Failed"})

C2_Witness ==
    pc = "Failed" /\ BuildFailed /\ buildChild.code = -1 /\ runChild = NoChild

(***************************************************************************)
(* C3                                                                      *)
(***************************************************************************)
\* C3: the flag decides the pair: set => ("profiling", samply record),
\* not set => ("release", time); no other pair is ever selected.
C3_ProfileModePair ==
    /\ Configured =>
          IF FlagSet
          THEN profile = <<"profiling">> /\ exe = << <<"samply">>, <<"record">> >>
          ELSE profile = <<"release">> /\ exe = << <<"time">> >>
    /\ ~Configured => (profile = <<>> /\ exe = <<>>)

C3_Witness ==
    Configured /\ FlagSet /\ pc = "Running" /\ profile = <<"profiling">>

(***************************************************************************)
(* C4                                                                      *)
(***************************************************************************)
\* C4: the profile B named by --profile=B of the build command is the
\* directory of the binary launched afterwards, the binary path is
\* P/target/B/frenzy, and it depends on nothing but P and the flag.
C4_SameProfileBuildAndPath ==
    /\ buildChild.state # "none" =>
          /\ Len(buildChild.cmd) >= 3
          /\ buildChild.cmd[3] = <<"--profile=">> \o ExpectedProfile
    /\ runChild.state # "none" =>
          /\ buildChild.state # "none"
          /\ runChild.cmd[Len(runChild.cmd) - 1]
                = ExpectedBinary(Tail(buildChild.cmd[3]))

C4_Witness ==
    /\ runChild.state = "alive"
    /\ FlagSet
    /\ proj_dir.parts = << <<"repo">> >>
    /\ runChild.cmd[3] = <<Sep, "repo", Sep, "target", Sep, "profiling", Sep, "frenzy">>

(***************************************************************************)
(* C5                                                                      *)
(***************************************************************************)
\* C5 as stated: the supplied path (a non-empty string), exactly as
\* supplied, is the last word of the run command, the default path if none
\* is supplied, in both modes.
C5_ExactPathForwarded ==
    runChild.state # "none" =>
        IF FileSupplied
        THEN SuppliedValue # <<>> => LastWord(runChild.cmd) = SuppliedValue
        ELSE LastWord(runChild.cmd) = ExpectedDefaultFile

\* C5 amended: the last word of the run command is the supplied path in
\* pathlib's spelling (repeated and trailing slashes and "." components
\* removed, the empty string spelled "."), hence the supplied string itself
\* when it is already spelled so; the default path if none is supplied; in
\* both modes, with nothing after it.
C5_NormalisedPathForwarded ==
    runChild.state # "none" =>
        /\ Len(runChild.cmd) = Len(exe) + 2
        /\ LastWord(runChild.cmd) =
              IF FileSupplied THEN fspath(PurePath(SuppliedValue))
              ELSE ExpectedDefaultFile
        /\ (FileSupplied /\ SuppliedValue # <<>>
              /\ \A c \in 1..Len(Split(SuppliedValue)) :
                    /\ Split(SuppliedValue)[c] # <<Dot>>
                    /\ Split(SuppliedValue)[c] # <<>>)
           => LastWord(runChild.cmd) = SuppliedValue

C5_Witness ==
    /\ runChild.state = "alive"
    /\ FlagSet
    /\ FileSupplied
    /\ SuppliedValue = <<Dot, Sep, "x">>
    /\ LastWord(runChild.cmd) = <<"x">>

(***************************************************************************)
(* C6                                                                      *)
(***************************************************************************)
\* C6 as stated: the only transitions are Configuring -> Building ->
\* Running -> (Succeeded | Failed) and Building -> Failed; Failed is entered
\* from Building or Running only, and nothing leaves a terminal state.
C6_LinearLifecycle ==
    [][ /\ pc \notin {"Succeeded", "Failed"}
        /\ pc' # pc => <<pc, pc'>> \in { <<"Configuring", "Building">>,
                                         <<"Building", "Running">>,
                                         <<"Building", "Failed">>,
                                         <<"Running", "Succeeded">>,
                                         <<"Running", "Failed">> } ]_vars

\* C6 amended: the lifecycle is linear with no transition back; Failed is
\* entered from Configuring (the command line is rejected), Building or
\* Running, Succeeded from Running only; a help request ends the invocation
\* in Configuring; nothing leaves a terminal state.
C6_LinearLifecycleWithConfigExit ==
    [][ /\ pc \notin Terminal
        /\ pc' # pc => <<pc, pc'>> \in { <<"Configuring", "Building">>,
                                         <<"Configuring", "Failed">>,
                                         <<"Configuring", "HelpShown">>,
                                         <<"Building", "Running">>,
                                         <<"Building", "Failed">>,
                                         <<"Running", "Succeeded">>,
                                         <<"Running", "Failed">> } ]_vars

C6_Witness ==
    pc = "Failed" /\ args.status = "error" /\ buildChild = NoChild /\ ValueMissing

C8_SequentialBlocking ==
    /\ [](~(buildChild.state = "alive" /\ runChild.state = "alive"))
    /\ [](runChild.state # "none" => buildChild.state = "exited")
    /\ [][ChildAlive => UNCHANGED launcherVars]_vars

C8_Witness ==
    runChild.state = "alive" /\ buildChild.state = "exited" /\ pc = "Running"

(***************************************************************************)
(* C9                                                                      *)
(***************************************************************************)
\* C9: the build child is `cargo build --profile=B --quiet` with the
\* project root as working directory; the run child is `time BIN ARG` in
\* Timed mode and `samply record BIN ARG` in Profiled mode.
C9_CommandShapes ==
    /\ buildChild.state # "none" =>
          /\ buildChild.cmd = << <<"cargo">>, <<"build">>,
                                 <<"--profile=">> \o ExpectedProfile, <<"--quiet">> >>
          /\ buildChild.cwd = proj_dir.root \o JoinSep(proj_dir.parts)
    /\ runChild.state # "none" =>
          IF FlagSet
          THEN /\ Len(runChild.cmd) = 4
               /\ SubSeq(runChild.cmd, 1, 3) =
                     << <<"samply">>, <<"record">>, ExpectedBinary(<<"profiling">>) >>
          ELSE /\ Len(runChild.cmd) = 3
               /\ SubSeq(runChild.cmd, 1, 2) =
                     << <<"time">>, ExpectedBinary(<<"release">>) >>

C9_Witness ==
    /\ runChild.state = "exited"
    /\ ~FlagSet
    /\ runChild.cmd[1] = <<"time">>
    /\ buildChild.cmd[4] = <<"--quiet">>
    /\ buildChild.cwd = <<Sep, "repo">>

(***************************************************************************)
(* C10                                                                     *)
(***************************************************************************)
RejectedEarly ==
    (~HelpAsked /\ (UnknownGiven \/ ValueMissing) /\ pc # "Configuring") =>
        (pc = "Failed" /\ exitStatus # <<0>> /\ exitStatus # <<>> /\ spawned = <<>>)

AtMostOneOfEach == spawned \in {<<>>, <<"build">>, <<"build", "run">>}

RunSpawned == \E i \in 1..Len(spawned) : spawned[i] = "run"

\* C10 as stated: a rejected command line ends the invocation non-zero with
\* no child spawned; at most one build child and one run child are spawned,
\* and the run child is spawned exactly when the build child exited 0.
C10_RunSpawnedIffBuildOk ==
    /\ RejectedEarly
    /\ AtMostOneOfEach
    /\ RunSpawned => BuildSucceeded
    /\ (pc \in Terminal /\ BuildSucceeded) => RunSpawned

\* C10 amended: as stated, except that after a build child that exited 0
\* the run child is spawned unless the wrapper command cannot be started,
\* in which case the launcher fails with no run child.
C10_RunSpawnedOnlyIfBuildOk ==
    /\ RejectedEarly
    /\ AtMostOneOfEach
    /\ RunSpawned => BuildSucceeded
    /\ (pc \in Terminal /\ BuildSucceeded) =>
          (RunSpawned \/ (pc = "Failed" /\ raised = "OSError" /\ runChild = NoChild))

C10_Witness ==
    /\ pc = "Failed"
    /\ UnknownGiven
    /\ ~HelpAsked
    /\ ~ValueMissing
    /\ raised = "SystemExit"
    /\ spawned = <<>>

====
